---------------------------- MODULE Spec2Model ----------------------------
(***************************************************************************)
(* ChatService (backend/main/src/chat/chat.service.ts): problem generation,*)
(* answer grading, the daily progress bucket and the best-accuracy         *)
(* achievement, modelled at the granularity of the awaited store and HTTP  *)
(* operations.  Every await is a point where other requests may run.       *)
(*                                                                         *)
(* Two revisions of the service are in the source file: the current one    *)
(* (solveHistories, achievements, progresses) and the earlier one that     *)
(* keeps isCorrect on the problem row and reads the 20 most recent         *)
(* problems.  A deployment runs one of them; `revision` is fixed by Init.  *)
(***************************************************************************)
EXTENDS Integers, FiniteSets, Sequences, TLC

\* ------------------------------------------------------------- bounds
MaxEvents == 4         \* requests started and midnights passed
MaxOverlaps == 1       \* requests started while another one is running

\* with one request at a time there is room for one more event
SeqEvents == MaxEvents + 1

\* ------------------------------------------------------ program values
Take == 20             \* take: 20 of the earlier generateProblem

Users == {"u1", "u2"}              \* rows of the users table
UserIds == Users \cup {"nobody"}   \* ids a client may pass
ProblemIds == {1}                  \* ids the inference service hands out
AskedIds == ProblemIds \cup {0}    \* 0: an id no problem ever has
Feedbacks == {"fb1"}
VoicePaths == {"vp1"}
Slots == {1, 2}                    \* requests in flight at the same time
Revisions == {"current", "recent20"}

\* --------------------------------------------------------- arithmetic
\* A JavaScript number that is a quotient of two small counts, kept as the
\* reduced fraction <<num, den>>; <<0, 0>> is NaN (0 / 0).
RECURSIVE Gcd(_, _)
Gcd(a, b) == IF b = 0 THEN a ELSE Gcd(b, a % b)

NaN == <<0, 0>>
Zero == <<0, 1>>

Div(c, t) == IF t = 0 THEN NaN ELSE <<c \div Gcd(c, t), t \div Gcd(c, t)>>

IsNaN(x) == x[2] = 0

\* a > b on numbers; any comparison with NaN is false
Gt(a, b) == ~IsNaN(a) /\ ~IsNaN(b) /\ a[1] * b[2] > b[1] * a[2]

Geq(a, b) == ~IsNaN(a) /\ ~IsNaN(b) /\ a[1] * b[2] >= b[1] * a[2]

\* (x * 100).toFixed(2), as the number of hundredths of a percent
ToFixed2(x) == IF IsNaN(x) THEN -1 ELSE (x[1] * 20000 + x[2]) \div (2 * x[2])

Title(rate) == <<"title", ToFixed2(rate)>>

Description(rate) == <<"description", ToFixed2(rate)>>

\* no rate yet, below every rate
NoRate == <<-1, 1>>

MaxRate(a, b) == IF Gt(b, a) THEN b ELSE a

VARIABLES
    revision,          \* which revision of ChatService is deployed
    today,             \* calendar day of new Date()
    events,            \* requests started and midnights passed so far
    overlaps,          \* requests started while another one was running
    problems,          \* problems table
    solveHistories,    \* solveHistories table (the Attempts)
    lazyCreates,       \* solveHistories.create queries built but not awaited
    progresses,        \* progresses table (the ProgressBuckets)
    achievements,      \* achievements table
    userAchievements,  \* userAchievements table (the links)
    req,               \* per slot: the request's position and locals
    passed             \* history: per user, the highest rate any call of
                       \* checkAndCreateAchievement was given

vars == <<revision, today, events, overlaps, problems, solveHistories, lazyCreates,
          progresses, achievements, userAchievements, req, passed>>

stores == <<problems, solveHistories, lazyCreates, progresses, achievements,
            userAchievements>>

\* ------------------------------------------------------------ queries
NoProg == [id |-> 0, userId |-> "nobody", correct |-> 0, total |-> 0, day |-> 0]

NoAch == [id |-> 0, title |-> Title(Zero), description |-> Description(Zero),
          level |-> Zero]

NoResp == [is_correct |-> FALSE, feedback |-> "none", voice_path |-> "none"]

IdleReq == [pc |-> "idle", kind |-> "none", call |-> 0, userId |-> "nobody",
            problemId |-> 0, answerRate |-> Zero, found |-> NoAch,
            newAch |-> 0, resp |-> NoResp, prog |-> NoProg,
            correct |-> 0, total |-> 0, result |-> "none", posts |-> 0,
            upstream |-> "none", progress |-> "none"]

Free(r) == req[r].pc \in {"idle", "done"}

\* solveHistories.findMany({ where: { userId } })
HistoriesOf(uid) == {h \in solveHistories : h.userId = uid}

\* reduce((acc, cur) => cur.isCorrect ? acc + 1 : acc, 0)
CountCorrect(rows) == Cardinality({h \in rows : h.isCorrect})

\* total === 0 ? 0 : correct / total
AnswerRate(rows) ==
    IF Cardinality(rows) = 0 THEN Zero
    ELSE Div(CountCorrect(rows), Cardinality(rows))

\* problems.findMany({ where: { userId }, orderBy: createdAt desc, take: 20 })
RecentProblems(uid) ==
    LET mine == {p \in problems : p.userId = uid}
    IN  {p \in mine :
            Cardinality({q \in mine : q.createdAt > p.createdAt}) < Take}

\* reduce((acc, cur) => acc + (cur.isCorrect ? 1 : 0), 0) / problems.length
AnswerRate20(rows) ==
    Div(Cardinality({p \in rows : p.isCorrect = "true"}), Cardinality(rows))

\* userAchievements.findFirst({ where: { userId }, include: achievement,
\*                              orderBy: { achievement: { level: 'desc' } } })
\* the set of rows the query may return (rows of equal level tie)
AchOf(link) == CHOOSE a \in achievements : a.id = link.achievementId

HighestOf(uid) ==
    LET mine == {AchOf(l) : l \in {k \in userAchievements : k.userId = uid}}
    IN  {a \in mine : \A b \in mine : Geq(a.level, b.level)}

\* progresses.findFirst({ where: { userId }, orderBy: createdAt desc })
\* ids are handed out in creation order
BucketsOf(uid) == {b \in progresses : b.userId = uid}

LatestBucket(uid) ==
    CHOOSE b \in BucketsOf(uid) : \A c \in BucketsOf(uid) : c.id <= b.id

\* prog.createdAt has the date, month and year of cur
SameDay(prog, cur) == prog.day = cur

\* the lookup without the owner
FindProblemById(pid, uid) == {p \in problems : p.id = pid}

\* problems.findUnique({ where: { id: problemId, userId: user.id } })
FindProblem(pid, uid) == {p \in problems : p.id = pid /\ p.userId = uid}

\* ----------------------------------------------------------------- Init
\* An empty store but for the users and, for some of them, a first bucket
\* made on day 0 by the process that registers a user.
InitBucket(uid, n) == [id |-> n, userId |-> uid, correct |-> 0, total |-> 0,
                       day |-> 0]

Init ==
    /\ revision \in Revisions
    /\ today = 0
    /\ events = 0
    /\ overlaps = 0
    /\ problems = {}
    /\ solveHistories = {}
    /\ lazyCreates = {}
    /\ progresses \in {{}, {InitBucket("u1", 1)}}
    /\ achievements = {}
    /\ userAchievements = {}
    /\ req = [r \in Slots |-> IdleReq]
    /\ passed = [u \in Users |-> NoRate]


\* -------------------------------------------------------------- helpers
Goto(r, rec) == req' = [req EXCEPT ![r] = rec]

\* the handler and everything it left running have finished: the locals are
\* gone; what was asked, what the inference service answered and what the
\* client got stay
Done(rec, result) ==
    [IdleReq EXCEPT !.pc = "done", !.kind = rec.kind, !.userId = rec.userId,
                    !.problemId = rec.problemId, !.result = result,
                    !.posts = rec.posts, !.upstream = rec.upstream,
                    !.progress = rec.progress]

\* a request takes the lowest free slot
FreeSlot == CHOOSE r \in Slots : Free(r) /\ \A q \in Slots : Free(q) => r <= q

Quiet == \A r \in Slots : Free(r)

\* room for one more request: below the bounds on events and on overlaps
CanStart(maxEvents, maxOverlaps) ==
    /\ events < maxEvents
    /\ \E r \in Slots : Free(r)
    /\ Quiet \/ overlaps < maxOverlaps

Started ==
    /\ events' = events + 1
    /\ overlaps' = IF Quiet THEN overlaps ELSE overlaps + 1

NewReq(kind, uid, pid) ==
    [IdleReq EXCEPT !.kind = kind, !.call = events + 1, !.userId = uid,
                    !.problemId = pid]

\* ------------------------------------------------------ generateProblem
\* users.findUnique; new Date(user.birth) throws a TypeError on a null user
GenerateProblem(uid, maxEvents, maxOverlaps) ==
    /\ CanStart(maxEvents, maxOverlaps)
    /\ Started
    /\ IF uid \in Users
       THEN Goto(FreeSlot, [NewReq("generateProblem", uid, 0)
                               EXCEPT !.pc = "gp_findMany"])
       ELSE Goto(FreeSlot, Done(NewReq("generateProblem", uid, 0), "TypeError"))
    /\ UNCHANGED <<revision, passed, today, stores>>

\* solveHistories.findMany, then the answer rate; checkAndCreateAchievement
\* is called with it
GpFindMany(r) ==
    /\ revision = "current"
    /\ req[r].pc = "gp_findMany"
    /\ LET rate == AnswerRate(HistoriesOf(req[r].userId))
       IN  /\ Goto(r, [req[r] EXCEPT !.pc = "ev_findFirst", !.answerRate = rate])
           /\ passed' = [passed EXCEPT ![req[r].userId] = MaxRate(@, rate)]
    /\ UNCHANGED <<revision, today, events, overlaps, stores>>

\* earlier revision: the 20 most recent problems, no achievement check
GpFindMany20(r) ==
    /\ revision = "recent20"
    /\ req[r].pc = "gp_findMany"
    /\ Goto(r, [req[r] EXCEPT !.pc = "gp_post",
                              !.answerRate = AnswerRate20(RecentProblems(req[r].userId))])
    /\ UNCHANGED <<revision, passed, today, events, overlaps, stores>>

\* a rejected post sent a second time
GpPostRetry(r) ==
    /\ req[r].pc = "gp_post"
    /\ \/ /\ req[r].posts = 0
          /\ Goto(r, [req[r] EXCEPT !.posts = @ + 1, !.upstream = "failed"])
       \/ /\ req[r].posts > 0
          /\ Goto(r, Done([req[r] EXCEPT !.posts = @ + 1, !.upstream = "failed"],
                         "UpstreamError"))
       \/ \E id \in ProblemIds :
            /\ \A p \in problems : p.id # id
            /\ \A q \in Slots : req[q].pc = "gp_create" => req[q].problemId # id
            /\ Goto(r, [req[r] EXCEPT !.pc = "gp_create", !.problemId = id,
                                      !.posts = @ + 1, !.upstream = "ok"])
    /\ UNCHANGED <<revision, passed, today, events, overlaps, stores>>

\* httpService.post(url, data) with data.userInfo.accuracy = answerRate.
\* A rejection is not caught in generateProblem.  The service names the id
\* of the new problem.
GpPost(r) ==
    /\ req[r].pc = "gp_post"
    /\ \/ Goto(r, Done([req[r] EXCEPT !.posts = @ + 1, !.upstream = "failed"],
                      "UpstreamError"))
       \/ \E id \in ProblemIds :
            /\ \A p \in problems : p.id # id
            /\ \A q \in Slots : req[q].pc = "gp_create" => req[q].problemId # id
            /\ Goto(r, [req[r] EXCEPT !.pc = "gp_create", !.problemId = id,
                                      !.posts = @ + 1, !.upstream = "ok"])
    /\ UNCHANGED <<revision, passed, today, events, overlaps, stores>>

\* problems.create, then return { problemId, question, image }
GpCreateProblem(r) ==
    /\ req[r].pc = "gp_create"
    /\ problems' = problems \cup
          {[id |-> req[r].problemId, userId |-> req[r].userId,
            isCorrect |-> "null", createdAt |-> Cardinality(problems) + 1]}
    /\ Goto(r, Done(req[r], "ok"))
    /\ UNCHANGED <<revision, passed, today, events, overlaps, solveHistories, lazyCreates,
                   progresses, achievements, userAchievements>>

\* -------------------------------------------- checkAndCreateAchievement
\* newAnswerRate > highestAnsRateAchievement.achievement.level
ShouldUpdateAlways(newAnswerRate, level) == TRUE

ShouldUpdateBelow(newAnswerRate, level) == ~Gt(newAnswerRate, level)

ShouldUpdate(newAnswerRate, level) == Gt(newAnswerRate, level)

\* userAchievements.findFirst ordered by level, and the branch taken on it
EvFindFirst(r) ==
    /\ req[r].pc = "ev_findFirst"
    /\ IF HighestOf(req[r].userId) = {}
       THEN Goto(r, [req[r] EXCEPT !.pc = "ev_createAchievement",
                                   !.found = NoAch])
       ELSE \E a \in HighestOf(req[r].userId) :
              Goto(r, [req[r] EXCEPT
                         !.found = a,
                         !.pc = IF ShouldUpdate(req[r].answerRate, a.level)
                                THEN "ev_update" ELSE "gp_post"])
    /\ UNCHANGED <<revision, passed, today, events, overlaps, stores>>

\* the update without the else in front of the create
EvUpdateThenCreate(r) ==
    /\ req[r].pc = "ev_update"
    /\ achievements' =
          {IF a.id = req[r].found.id
           THEN [a EXCEPT !.title = Title(req[r].answerRate),
                          !.description = Description(req[r].answerRate),
                          !.level = req[r].answerRate]
           ELSE a : a \in achievements}
    /\ Goto(r, [req[r] EXCEPT !.pc = "ev_createAchievement"])
    /\ UNCHANGED <<revision, passed, today, events, overlaps, problems,
                   solveHistories, lazyCreates, progresses, userAchievements>>

\* the texts rewritten, the level left
UpdatedAchievementKeepsLevel(a, newAnswerRate) ==
    [a EXCEPT !.title = Title(newAnswerRate),
              !.description = Description(newAnswerRate)]

\* achievements.update({ where: { id }, data: { title, description, level } })
UpdatedAchievement(a, newAnswerRate) ==
    [a EXCEPT !.title = Title(newAnswerRate),
              !.description = Description(newAnswerRate),
              !.level = newAnswerRate]

EvUpdate(r) ==
    /\ req[r].pc = "ev_update"
    /\ achievements' =
          {IF a.id = req[r].found.id
           THEN UpdatedAchievement(a, req[r].answerRate) ELSE a :
           a \in achievements}
    /\ Goto(r, [req[r] EXCEPT !.pc = "gp_post"])
    /\ UNCHANGED <<revision, passed, today, events, overlaps, problems, solveHistories,
                   lazyCreates, progresses, userAchievements>>

\* achievements.create({ data: { title, description, level } })
NewAchievement(id, newAnswerRate) ==
    [id |-> id, title |-> Title(newAnswerRate),
     description |-> Description(newAnswerRate), level |-> newAnswerRate]

EvCreateAchievement(r) ==
    /\ req[r].pc = "ev_createAchievement"
    /\ LET id == Cardinality(achievements) + 1
       IN  /\ achievements' = achievements \cup
                                {NewAchievement(id, req[r].answerRate)}
           /\ Goto(r, [req[r] EXCEPT !.pc = "ev_createLink", !.newAch = id])
    /\ UNCHANGED <<revision, passed, today, events, overlaps, problems, solveHistories,
                   lazyCreates, progresses, userAchievements>>

\* userAchievements.create({ data: { userId, achievementId } })
EvCreateLink(r) ==
    /\ req[r].pc = "ev_createLink"
    /\ userAchievements' = userAchievements \cup
          {[id |-> Cardinality(userAchievements) + 1,
            userId |-> req[r].userId, achievementId |-> req[r].newAch]}
    /\ Goto(r, [req[r] EXCEPT !.pc = "gp_post"])
    /\ UNCHANGED <<revision, passed, today, events, overlaps, problems, solveHistories,
                   lazyCreates, progresses, achievements>>

\* ----------------------------------------------------- generateFeedback
\* problems.findUnique by id and owner; throw new Error('Problem not found')
GenerateFeedback(pid, uid, maxEvents, maxOverlaps) ==
    /\ CanStart(maxEvents, maxOverlaps)
    /\ Started
    /\ IF FindProblem(pid, uid) = {}
       THEN Goto(FreeSlot, Done(NewReq("generateFeedback", uid, pid), "ProblemNotFound"))
       ELSE Goto(FreeSlot, [NewReq("generateFeedback", uid, pid)
                               EXCEPT !.pc = "gf_post"])
    /\ UNCHANGED <<revision, passed, today, stores>>

\* the data of solveHistories.create; the row's id is the number of the
\* request that makes it
AttemptData(r, resp) ==
    [id |-> req[r].call, userId |-> req[r].userId,
     problemId |-> req[r].problemId, isCorrect |-> resp.is_correct,
     feedback |-> resp.feedback, voicePath |-> resp.voice_path]

\* checkProgress in a finally block: it runs after a rejected post too
GfPostFinally(r) ==
    /\ revision = "current"
    /\ req[r].pc = "gf_post"
    /\ \/ /\ Goto(r, [req[r] EXCEPT !.pc = "cp_findFirst", !.posts = @ + 1,
                                    !.upstream = "failed",
                                    !.result = "InternalServerError"])
          /\ UNCHANGED lazyCreates
       \/ \E c \in BOOLEAN, f \in Feedbacks, v \in VoicePaths :
            LET resp == [is_correct |-> c, feedback |-> f, voice_path |-> v]
            IN  /\ lazyCreates' = lazyCreates \cup
                      {[id |-> req[r].call, userId |-> req[r].userId,
                        problemId |-> req[r].problemId, isCorrect |-> c,
                        feedback |-> f, voicePath |-> v]}
                /\ Goto(r, [req[r] EXCEPT !.pc = "cp_findFirst", !.resp = resp,
                                          !.posts = @ + 1, !.result = "ok",
                                          !.upstream = "ok"])
    /\ UNCHANGED <<revision, passed, today, events, overlaps, problems,
                   solveHistories, progresses, achievements, userAchievements>>

\* The try block.  The post rejects: InternalServerErrorException.  The post
\* resolves: solveHistories.create builds its query, which nothing awaits;
\* checkProgress is called and runs up to its first await; the payload is
\* returned while checkProgress goes on.
GfPost(r) ==
    /\ revision = "current"
    /\ req[r].pc = "gf_post"
    /\ \/ /\ Goto(r, Done([req[r] EXCEPT !.posts = @ + 1, !.upstream = "failed"],
                           "InternalServerError"))
          /\ UNCHANGED lazyCreates
       \/ \E c \in BOOLEAN, f \in Feedbacks, v \in VoicePaths :
            LET resp == [is_correct |-> c, feedback |-> f, voice_path |-> v]
            IN  /\ lazyCreates' = lazyCreates \cup {AttemptData(r, resp)}
                /\ Goto(r, [req[r] EXCEPT !.pc = "cp_findFirst", !.resp = resp,
                                          !.posts = @ + 1, !.result = "ok",
                                          !.upstream = "ok"])
    /\ UNCHANGED <<revision, passed, today, events, overlaps, problems, solveHistories,
                   progresses, achievements, userAchievements>>

\* A query of the store client is sent when its promise is awaited or
\* then() is called on it, and line 129 does neither: the row may be
\* written at any later moment or never.
RunLazyCreate(c) ==
    /\ c \in lazyCreates
    /\ lazyCreates' = lazyCreates \ {c}
    /\ solveHistories' = solveHistories \cup {c}
    /\ UNCHANGED <<revision, passed, today, events, overlaps, problems, progresses,
                   achievements, userAchievements, req>>

\* earlier revision: the post, then the awaited problems.update
GfPost20(r) ==
    /\ revision = "recent20"
    /\ req[r].pc = "gf_post"
    /\ \/ Goto(r, Done([req[r] EXCEPT !.posts = @ + 1, !.upstream = "failed"],
                        "InternalServerError"))
       \/ \E c \in BOOLEAN, f \in Feedbacks, v \in VoicePaths :
            Goto(r, [req[r] EXCEPT
                       !.pc = "gf_update", !.posts = @ + 1, !.upstream = "ok",
                       !.resp = [is_correct |-> c, feedback |-> f,
                                 voice_path |-> v]])
    /\ UNCHANGED <<revision, passed, today, events, overlaps, stores>>

GfUpdateProblem(r) ==
    /\ req[r].pc = "gf_update"
    /\ problems' =
          {IF p.id = req[r].problemId
           THEN [p EXCEPT !.isCorrect =
                            IF req[r].resp.is_correct THEN "true" ELSE "false"]
           ELSE p : p \in problems}
    /\ Goto(r, Done(req[r], "ok"))
    /\ UNCHANGED <<revision, passed, today, events, overlaps, solveHistories, lazyCreates,
                   progresses, achievements, userAchievements>>

\* -------------------------------------------------------- checkProgress
\* a first bucket made for a user who has none
CpFindFirstBootstrap(r) ==
    /\ req[r].pc = "cp_findFirst"
    /\ IF BucketsOf(req[r].userId) = {}
       THEN /\ progresses' = progresses \cup
                  {[id |-> Cardinality(progresses) + 1,
                    userId |-> req[r].userId,
                    correct |-> IF req[r].resp.is_correct THEN 1 ELSE 0,
                    total |-> 1, day |-> today]}
            /\ Goto(r, Done(req[r], req[r].result))
       ELSE /\ LET prog == LatestBucket(req[r].userId)
               IN  Goto(r, [req[r] EXCEPT
                              !.prog = prog,
                              !.pc = IF SameDay(prog, today)
                                     THEN "cp_update" ELSE "cp_findMany"])
            /\ UNCHANGED progresses
    /\ UNCHANGED <<revision, passed, today, events, overlaps, problems,
                   solveHistories, lazyCreates, achievements, userAchievements>>

\* users.findUnique (users are never removed), progresses.findFirst, and
\* the branch on the bucket found: none, of today, of an earlier day
CpFindFirst(r) ==
    /\ req[r].pc = "cp_findFirst"
    /\ IF BucketsOf(req[r].userId) = {}
       THEN Goto(r, Done(req[r], req[r].result))
       ELSE LET prog == LatestBucket(req[r].userId)
            IN  Goto(r, [req[r] EXCEPT
                           !.prog = prog,
                           !.pc = IF SameDay(prog, today)
                                  THEN "cp_update" ELSE "cp_findMany"])
    /\ UNCHANGED <<revision, passed, today, events, overlaps, stores>>

\* correct counted whatever isCorrect is
UpdateDataAlwaysCorrect(prog, isCorrect) ==
    [correct |-> prog.correct + 1, total |-> prog.total + 1]

\* the total left as it was read
UpdateDataNoTotal(prog, isCorrect) ==
    [correct |-> IF isCorrect THEN prog.correct + 1 ELSE prog.correct,
     total |-> prog.total]

\* data: { correct: isCorrect ? prog.correct + 1 : prog.correct,
\*         total: prog.total + 1 }
UpdateData(prog, isCorrect) ==
    [correct |-> IF isCorrect THEN prog.correct + 1 ELSE prog.correct,
     total |-> prog.total + 1]

\* the increment done by the store on the row as it is at the write
CpUpdateAtomic(r) ==
    /\ req[r].pc = "cp_update"
    /\ progresses' =
          {IF b.id = req[r].prog.id
           THEN [b EXCEPT !.correct = UpdateData(b, req[r].resp.is_correct).correct,
                          !.total = UpdateData(b, req[r].resp.is_correct).total]
           ELSE b : b \in progresses}
    /\ Goto(r, Done(req[r], req[r].result))
    /\ UNCHANGED <<revision, passed, today, events, overlaps, problems,
                   solveHistories, lazyCreates, achievements, userAchievements>>

\* progresses.update({ where: { id: prog.id }, data })
CpUpdate(r) ==
    /\ req[r].pc = "cp_update"
    /\ LET data == UpdateData(req[r].prog, req[r].resp.is_correct)
       IN  progresses' =
             {IF b.id = req[r].prog.id
              THEN [b EXCEPT !.correct = data.correct, !.total = data.total]
              ELSE b : b \in progresses}
    /\ Goto(r, Done(req[r], req[r].result))
    /\ UNCHANGED <<revision, passed, today, events, overlaps, problems, solveHistories,
                   lazyCreates, achievements, userAchievements>>

\* the counts of the day that starts, not of the whole history
CpFindManyDelta(r) ==
    /\ req[r].pc = "cp_findMany"
    /\ Goto(r, [req[r] EXCEPT
                  !.pc = "cp_create",
                  !.correct = IF req[r].resp.is_correct THEN 1 ELSE 0,
                  !.total = 1])
    /\ UNCHANGED <<revision, passed, today, events, overlaps, stores>>

\* solveHistories.findMany and the two counts over it
CpFindMany(r) ==
    /\ req[r].pc = "cp_findMany"
    /\ Goto(r, [req[r] EXCEPT
                  !.pc = "cp_create",
                  !.correct = CountCorrect(HistoriesOf(req[r].userId)),
                  !.total = Cardinality(HistoriesOf(req[r].userId))])
    /\ UNCHANGED <<revision, passed, today, events, overlaps, stores>>

\* progresses.create({ data: { userId, correct, total } }), createdAt now()
CpCreate(r) ==
    /\ req[r].pc = "cp_create"
    /\ progresses' = progresses \cup
          {[id |-> Cardinality(progresses) + 1, userId |-> req[r].userId,
            correct |-> req[r].correct, total |-> req[r].total,
            day |-> today]}
    /\ Goto(r, Done(req[r], req[r].result))
    /\ UNCHANGED <<revision, passed, today, events, overlaps, problems, solveHistories,
                   lazyCreates, achievements, userAchievements>>

\* ---------------------------------------------------------------- clock
Tick(maxEvents) ==
    /\ events < maxEvents
    /\ events' = events + 1
    /\ today' = today + 1
    /\ UNCHANGED <<revision, passed, overlaps, stores, req>>

\* ------------------------------------------------------- specifications
Step(r) ==
    \/ GpFindMany(r)
    \/ GpFindMany20(r)
    \/ EvFindFirst(r)
    \/ EvUpdate(r)
    \/ EvCreateAchievement(r)
    \/ EvCreateLink(r)
    \/ GpPost(r)
    \/ GpCreateProblem(r)
    \/ GfPost(r)
    \/ GfPost20(r)
    \/ GfUpdateProblem(r)
    \/ CpFindFirst(r)
    \/ CpUpdate(r)
    \/ CpFindMany(r)
    \/ CpCreate(r)

\* a query of checkProgress rejects: the promise line 139 dropped rejects,
\* with nothing awaiting it and no catch around it
CpFailPropagates(r) ==
    /\ req[r].pc \in {"cp_findFirst", "cp_update", "cp_findMany", "cp_create"}
    /\ Goto(r, Done([req[r] EXCEPT !.progress = "failed"], "InternalServerError"))
    /\ UNCHANGED <<revision, passed, today, events, overlaps, stores>>

CpFail(r) ==
    /\ req[r].pc \in {"cp_findFirst", "cp_update", "cp_findMany", "cp_create"}
    /\ Goto(r, Done([req[r] EXCEPT !.progress = "failed"], req[r].result))
    /\ UNCHANGED <<revision, passed, today, events, overlaps, stores>>

\* requests of any users, overlapping
Next ==
    \/ \E uid \in UserIds : GenerateProblem(uid, MaxEvents, MaxOverlaps)
    \/ \E pid \in AskedIds, uid \in Users :
          GenerateFeedback(pid, uid, MaxEvents, MaxOverlaps)
    \/ \E r \in Slots : Step(r)
    \/ \E c \in lazyCreates : RunLazyCreate(c)
    \/ Tick(MaxEvents)

Spec == Init /\ [][Next]_vars

\* one request at a time: a request starts when the one before it, the
\* progress update it left running included, has finished
SeqNext ==
    \/ \E uid \in UserIds : GenerateProblem(uid, SeqEvents, 0)
    \/ \E pid \in AskedIds, uid \in Users :
          GenerateFeedback(pid, uid, SeqEvents, 0)
    \/ \E r \in Slots : Step(r)
    \/ \E c \in lazyCreates : RunLazyCreate(c)
    \/ Tick(SeqEvents)

SeqSpec == Init /\ [][SeqNext]_vars

\* one request at a time, over a store whose queries can fail under
\* checkProgress
FailNext ==
    \/ SeqNext
    \/ \E r \in Slots : CpFail(r)

FailSpec == Init /\ [][FailNext]_vars

\* the requests of one user who has no bucket, in the current revision, on
\* one day, overlapping: checkProgress returns at its first test
RaceInit ==
    /\ Init
    /\ revision = "current"
    /\ progresses = {}

RaceStep(r) ==
    \/ GpFindMany(r)
    \/ EvFindFirst(r)
    \/ EvUpdate(r)
    \/ EvCreateAchievement(r)
    \/ EvCreateLink(r)
    \/ GpPost(r)
    \/ GpCreateProblem(r)
    \/ GfPost(r)
    \/ CpFindFirst(r)

RaceNext ==
    \/ GenerateProblem("u1", SeqEvents, MaxOverlaps)
    \/ \E pid \in ProblemIds : GenerateFeedback(pid, "u1", SeqEvents, MaxOverlaps)
    \/ \E r \in Slots : RaceStep(r)
    \/ \E c \in lazyCreates : RunLazyCreate(c)

RaceSpec == RaceInit /\ [][RaceNext]_vars

\* the steps the handlers await run; nothing runs a query that was only
\* built
FairSpec == Spec /\ \A r \in Slots : WF_vars(Step(r))

\* ============================================================ properties
LinksOf(u) == {l \in userAchievements : l.userId = u}

LinkedAchievements(u) ==
    {a \in achievements : \E l \in LinksOf(u) : l.achievementId = a.id}

AttemptsOf(u) == {h \in solveHistories : h.userId = u}

Leq(x, y) == x[1] * y[2] <= y[1] * x[2]

\* C1: with one request at a time, no step lowers the level of a user's
\* best-accuracy achievement: every level the user holds before the step is
\* matched or exceeded by a level the user holds after it.
C1_LevelNeverDecreases ==
    [][\A u \in Users : \A a \in LinkedAchievements(u) :
          \E b \in LinkedAchievements(u)' : Leq(a.level, b.level)]_vars

\* a user's achievement has been raised above the level 0 it was made with
C1_Witness ==
    /\ Quiet
    /\ \E u \in Users : \E a \in LinkedAchievements(u) : a.level = <<1, 2>>

\* C2: whenever generateProblem is about to post the profile of a user who
\* has no attempt history (no solveHistories row; in the earlier revision no
\* problem row), the accuracy it computed is exactly 0.
C2_ZeroAccuracy ==
    \A r \in Slots :
        (/\ req[r].pc = "gp_post"
         /\ AttemptsOf(req[r].userId) = {}
         /\ revision = "recent20" =>
               {p \in problems : p.userId = req[r].userId} = {})
        => req[r].answerRate = <<0, 1>>

\* C3: a generateFeedback call for a problem id that no problem of the
\* caller has is over in its first step: it fails with 'Problem not found',
\* has posted nothing, leaves every table and the set of built queries as
\* they were, and never reaches checkProgress.
C3_NotFound ==
    [][\A r \in Slots :
          (/\ req'[r] # req[r]
           /\ req[r].pc \in {"idle", "done"}
           /\ req'[r].kind = "generateFeedback"
           /\ ~\E p \in problems : /\ p.id = req'[r].problemId
                                   /\ p.userId = req'[r].userId)
          => /\ req'[r].pc = "done"
             /\ req'[r].result = "ProblemNotFound"
             /\ req'[r].posts = 0
             /\ UNCHANGED stores]_vars

\* a caller was refused a problem that exists and belongs to someone else
C3_Witness ==
    \E r \in Slots :
        /\ req[r].pc = "done"
        /\ req[r].kind = "generateFeedback"
        /\ req[r].result = "ProblemNotFound"
        /\ \E p \in problems : /\ p.id = req[r].problemId
                               /\ p.userId # req[r].userId

\* C4: when the post of generateFeedback fails, the request ends there with
\* the InternalServerErrorException, the step changes no table and builds
\* no query, and checkProgress is not started; up to its post a
\* generateFeedback request has built no solveHistories query.
C4_UpstreamFailure ==
    /\ [][\A r \in Slots :
            (/\ req[r].pc = "gf_post"
             /\ revision = "current"
             /\ req'[r].upstream = "failed")
            => /\ req'[r].pc = "done"
               /\ req'[r].result = "InternalServerError"
               /\ UNCHANGED stores]_vars
    /\ [](\A r \in Slots :
            req[r].pc = "gf_post" =>
               ~\E c \in lazyCreates \cup solveHistories : c.id = req[r].call)

\* a grading request ended on a failed post
C4_Witness ==
    \E r \in Slots :
        /\ revision = "current"
        /\ req[r].pc = "done"
        /\ req[r].kind = "generateFeedback"
        /\ req[r].upstream = "failed"
        /\ req[r].result = "InternalServerError"

\* C5: every grading whose post succeeded gets its Attempt persisted in the
\* end, and never has more than one Attempt.
C5_AttemptPersisted ==
    /\ \A c \in 1..(MaxEvents + 3) :
          (\E x \in lazyCreates : x.id = c) ~> (\E h \in solveHistories : h.id = c)
    /\ [](\A c \in 1..(MaxEvents + 3) :
             Cardinality({h \in solveHistories : h.id = c}) <= 1)

\* C6: with one request at a time, checkProgress that finds the user's
\* latest bucket to be of today goes on to the update and creates nothing;
\* the update adds 1 to that bucket's total and 1 to its correct iff
\* isCorrect, and changes no other bucket and not the number of buckets.
C6_SameDayUpdate ==
    [][\A r \in Slots :
          /\ (/\ req[r].pc = "cp_findFirst"
              /\ \E b \in progresses :
                    /\ b.userId = req[r].userId
                    /\ b.day = today
                    /\ \A c \in progresses :
                          c.userId = req[r].userId => c.id <= b.id)
             => /\ progresses' = progresses
                /\ req'[r].pc \in {"cp_findFirst", "cp_update"}
          /\ (req[r].pc = "cp_update" /\ req'[r] # req[r])
             => \E b \in progresses :
                    /\ b.userId = req[r].userId
                    /\ \A c \in progresses :
                          c.userId = req[r].userId => c.id <= b.id
                    /\ progresses' = (progresses \ {b}) \cup
                          {[b EXCEPT
                              !.total = b.total + 1,
                              !.correct = IF req[r].resp.is_correct
                                          THEN b.correct + 1 ELSE b.correct]}
                    /\ Cardinality(progresses') = Cardinality(progresses)]_vars

\* two gradings of one day, one right and one wrong, on the single bucket
C6_Witness ==
    /\ Quiet
    /\ today = 0
    /\ progresses = {[id |-> 1, userId |-> "u1", correct |-> 1, total |-> 2,
                      day |-> 0]}

\* C7: the step checkProgress takes when the user has no bucket ends the
\* request and writes nothing: no table and no built query changes.
C7_NoBucketNoWrite ==
    [][\A r \in Slots :
          (/\ req[r].pc = "cp_findFirst"
           /\ ~\E b \in progresses : b.userId = req[r].userId
           /\ req'[r] # req[r])
          => /\ req'[r].pc = "done"
             /\ UNCHANGED stores]_vars

\* gradings, a right one among them, have finished and there is no bucket
C7_Witness ==
    /\ Quiet
    /\ progresses = {}
    /\ \E c \in lazyCreates \cup solveHistories : c.isCorrect
    /\ \E c \in lazyCreates \cup solveHistories : ~c.isCorrect

\* C8: with one request at a time, on a bucket of an earlier day
\* checkProgress reads the user's Attempts and counts them (all, and the
\* correct ones); the create that follows adds exactly one bucket, of today,
\* with those two counts, and leaves every other bucket as it was.
C8_Rollover ==
    [][\A r \in Slots :
          /\ (req[r].pc = "cp_findMany" /\ req'[r] # req[r])
             => /\ req'[r].pc = "cp_create"
                /\ req'[r].total = Cardinality(AttemptsOf(req[r].userId))
                /\ req'[r].correct =
                      Cardinality({h \in AttemptsOf(req[r].userId) : h.isCorrect})
                /\ progresses' = progresses
          /\ (req[r].pc = "cp_create" /\ req'[r] # req[r])
             => \E n \in progresses' \ progresses :
                    /\ progresses' = progresses \cup {n}
                    /\ n.userId = req[r].userId
                    /\ n.day = today
                    /\ n.total = req[r].total
                    /\ n.correct = req[r].correct
          /\ (req[r].pc = "cp_create" /\ req'[r] = req[r])
             => progresses' = progresses]_vars

\* a bucket of a later day seeded with a history of two attempts, one right
C8_Witness ==
    \E n \in progresses :
        /\ n.day > 0
        /\ n.total = 2
        /\ n.correct = 1
        /\ \E b \in progresses : b.userId = n.userId /\ b.day = 0

\* C9: with one request at a time, evaluate called with a rate that is not
\* above the level the user already holds returns without a write: the
\* achievements and the links stay as they are.
C9_NoOp ==
    [][\A r \in Slots :
          (/\ req[r].pc = "ev_findFirst"
           /\ \E a \in LinkedAchievements(req[r].userId) :
                 Leq(req[r].answerRate, a.level))
          => /\ achievements' = achievements
             /\ userAchievements' = userAchievements
             /\ req'[r].pc \in {"ev_findFirst", "gp_post"}]_vars

\* evaluate has returned on a rate strictly below the level held
C9_Witness ==
    \E r \in Slots :
        /\ req[r].pc = "gp_post"
        /\ revision = "current"
        /\ req[r].found \in achievements
        /\ Leq(req[r].answerRate, req[r].found.level)
        /\ req[r].answerRate # req[r].found.level

\* C10: with one request at a time, an achievement or a link is created
\* only for a user who has no link, the achievement with level = newRate and
\* the link pointing to it; links are only ever added; no user has two
\* links; and once evaluate has returned the user has exactly one link and
\* one achievement.
C10_OneLink ==
    /\ [][/\ userAchievements \subseteq userAchievements'
          /\ userAchievements' # userAchievements =>
                \E r \in Slots : \E l \in userAchievements' :
                    /\ userAchievements' = userAchievements \cup {l}
                    /\ l.userId = req[r].userId
                    /\ LinksOf(l.userId) = {}
                    /\ \E a \in achievements : /\ a.id = l.achievementId
                                               /\ a.level = req[r].answerRate
          /\ Cardinality(achievements') > Cardinality(achievements) =>
                \E r \in Slots : \E a \in achievements' \ achievements :
                    /\ achievements' = achievements \cup {a}
                    /\ LinksOf(req[r].userId) = {}
                    /\ a.level = req[r].answerRate]_vars
    /\ [](\A u \in Users :
             /\ Cardinality(LinksOf(u)) <= 1
             /\ \A r \in Slots :
                   (/\ revision = "current"
                    /\ req[r].userId = u
                    /\ req[r].pc \in {"gp_post", "gp_create"})
                   => /\ Cardinality(LinksOf(u)) = 1
                      /\ Cardinality(LinkedAchievements(u)) = 1)

\* after several requests a user holds one link, to an achievement that
\* a later evaluate call has raised
C10_Witness ==
    /\ Quiet
    /\ events >= 3
    /\ \E u \in Users : /\ Cardinality(LinksOf(u)) = 1
                        /\ \E a \in LinkedAchievements(u) : a.level # <<0, 1>>


\* C11: in every reachable state, with requests overlapping in any way,
\* every bucket has correct <= total.
C11_CorrectAtMostTotal ==
    \A b \in progresses : b.correct <= b.total

\* a bucket that gradings have brought to as many right answers as answers,
\* beside a bucket made on a later day
C11_Witness ==
    /\ \E b \in progresses : b.total > 0 /\ b.correct = b.total
    /\ \E b \in progresses : b.day > 0 /\ b.total > 0


\* C12: generateProblem for a user id that has no users row fails with
\* NotFound, before any post to the inference service and before any write.
C12_UnknownUser ==
    \A r \in Slots :
        (/\ req[r].pc = "done"
         /\ req[r].kind = "generateProblem"
         /\ req[r].userId \notin Users)
        => /\ req[r].result = "NotFound"
           /\ req[r].posts = 0

\* C13: a generateProblem request sends at most one post; when the post
\* fails the request ends in that step with the upstream failure, the step
\* writes no table, and a request that ended so has sent exactly one post.
C13_SinglePost ==
    /\ [][\A r \in Slots :
            (/\ req[r].pc = "gp_post"
             /\ req'[r].upstream = "failed")
            => /\ req'[r].pc = "done"
               /\ req'[r].result = "UpstreamError"
               /\ req'[r].posts = 1
               /\ UNCHANGED stores]_vars
    /\ [](\A r \in Slots :
            req[r].kind = "generateProblem" => req[r].posts <= 1)

\* a generateProblem request ended on its one failed post, in a state where
\* the store holds no problem of its user
C13_Witness ==
    \E r \in Slots :
        /\ req[r].pc = "done"
        /\ req[r].kind = "generateProblem"
        /\ req[r].upstream = "failed"
        /\ req[r].result = "UpstreamError"
        /\ req[r].posts = 1
        /\ \A p \in problems : p.userId # req[r].userId


\* C14: the post of generateFeedback having succeeded, the client has the
\* grading in the step that starts checkProgress, before any query of
\* checkProgress has run; no step of checkProgress, a failing one included,
\* changes what the client got, and a request whose checkProgress failed
\* ended with the grading as its result.
C14_FireAndForget ==
    /\ [][\A r \in Slots :
            (/\ req[r].pc = "gf_post"
             /\ revision = "current"
             /\ req'[r].upstream = "ok")
            => /\ req'[r].result = "ok"
               /\ req'[r].pc = "cp_findFirst"]_vars
    /\ [][\A r \in Slots :
            req[r].pc \in {"cp_findFirst", "cp_update", "cp_findMany", "cp_create"}
            => /\ req[r].result = "ok"
               /\ req'[r].result = "ok"]_vars
    /\ [](\A r \in Slots : req[r].progress = "failed" => req[r].result = "ok")

\* a grading whose checkProgress failed after the client was answered
C14_Witness ==
    \E r \in Slots :
        /\ req[r].pc = "done"
        /\ req[r].kind = "generateFeedback"
        /\ req[r].progress = "failed"
        /\ req[r].result = "ok"
        /\ req[r].upstream = "ok"


\* C15: with one request at a time, once checkAndCreateAchievement has run
\* for a user with the rates r1..rn, the user holds an achievement and its
\* level is the highest of r1..rn.
C15_LevelIsMax ==
    \A u \in Users :
        (/\ passed[u] # NoRate
         /\ \A r \in Slots :
               req[r].userId = u =>
                  req[r].pc \notin {"ev_findFirst", "ev_update",
                                    "ev_createAchievement", "ev_createLink"})
        => /\ LinkedAchievements(u) # {}
           /\ \A a \in LinkedAchievements(u) : a.level = passed[u]

\* the third check of a user came with 1/2 after 0 and 1 and has finished:
\* the level is still 1
C15_Witness ==
    \E r \in Slots :
        /\ req[r].pc = "gp_post"
        /\ req[r].userId = "u1"
        /\ req[r].answerRate = <<1, 2>>
        /\ passed["u1"] = <<1, 1>>
        /\ \E a \in LinkedAchievements("u1") : a.level = <<1, 1>>


\* C16: no step stores in an achievement a level lower than the level the
\* achievement holds at that moment, whatever requests overlap.
C16_LevelMonotone ==
    [][\A a \in achievements : \A b \in achievements' :
          b.id = a.id => Leq(a.level, b.level)]_vars


\* the gradings of u answered so far: each built one solveHistories query
GradedOf(u) == {c \in lazyCreates \cup solveHistories : c.userId = u}

\* C17: the update of checkProgress stores the total it read plus 1,
\* whatever the row holds by then, so of two gradings of one user and day
\* that both read the bucket before either writes, one increment is lost;
\* on a day's bucket, once all requests have finished, the total is at most
\* the number of gradings, at least 1 if there was one, and equal to it
\* when no two requests overlapped (two gradings in turn add 2).
C17_LostUpdate ==
    /\ [][\A r \in Slots :
            (req[r].pc = "cp_update" /\ req'[r] # req[r])
            => \E b \in progresses' :
                  /\ b.id = req[r].prog.id
                  /\ b.total = req[r].prog.total + 1]_vars
    /\ [](\A b \in progresses :
            (Quiet /\ today = 0)
            => /\ b.total <= Cardinality(GradedOf(b.userId))
               /\ GradedOf(b.userId) # {} => b.total >= 1
               /\ overlaps = 0 => b.total = Cardinality(GradedOf(b.userId)))

\* two gradings of u1 on one day have both finished and the bucket, at 0
\* before them, stands at 1
C17_Witness ==
    /\ Quiet
    /\ today = 0
    /\ Cardinality(GradedOf("u1")) = 2
    /\ \E b \in progresses : b.userId = "u1" /\ b.total = 1


\* C18: in every reachable state each user has at most one bucket whose day
\* is today, whatever requests overlap.
C18_OneBucketOfToday ==
    \A u \in Users :
        Cardinality({b \in BucketsOf(u) : SameDay(b, today)}) <= 1

\* C19: in every reachable state each user has at most one best-accuracy
\* achievement and at most one link, whatever requests overlap.
C19_OneAchievement ==
    \A u \in Users :
        /\ Cardinality(LinkedAchievements(u)) <= 1
        /\ Cardinality({l.id : l \in LinksOf(u)}) <= 1

\* C20: when checkProgress, after a successful grading, reads the history
\* for the bucket of a new day, the Attempt of that grading is in the
\* table; and once the request has finished, the bucket it made has as its
\* total the number of the user's Attempts.
C20_AttemptBeforeRollover ==
    [][\A r \in Slots :
          /\ (req[r].pc = "cp_findMany" /\ req'[r].pc = "cp_create")
             => \E h \in solveHistories : h.id = req[r].call
          /\ (req[r].pc = "cp_create" /\ req'[r].pc = "done")
             => \E b \in progresses' \ progresses :
                   b.total = Cardinality(AttemptsOf(req[r].userId))']_vars

=============================================================================
